---- MODULE Spec2Model ----
(***************************************************************************)
(* PCO -> DiGiCo snapshot builder (src/GUI.py).                            *)
(*                                                                         *)
(* The module models the App object of GUI.py: the data it holds after a   *)
(* load, the list of plan times and its selection, the offset inputs, the  *)
(* preview rows, the state of the buttons, and the worker threads started  *)
(* by the handlers.  Text is a sequence of one-character strings;          *)
(* timestamps are naturals ordered as their ISO-8601 strings are, with 0   *)
(* for a missing or empty value.                                           *)
(***************************************************************************)
EXTENDS Integers, Sequences, FiniteSets, TLC

\* ------------------------------------------------------------------ bounds

\* longest "included" array of a loaded plan
MaxItemTimes == 3
\* number of send threads the model lets the user start
MaxSend == 2
\* number of fetch and load threads alive at a time
MaxTasks == 2

\* ------------------------------------------------------------------ text

DQ == "\""
SQ == "'"

\* a name that is sent as the title stands
ReplaceQuotesNone(s) == s

\* str.replace('"', "'") of GUI.py line 589
ReplaceQuotes(s) == [i \in 1..Len(s) |-> IF s[i] = DQ THEN SQ ELSE s[i]]

UntitledCue == <<"U", "n", "t", "i", "t", "l", "e", "d", " ", "C", "u", "e">>

\* (item_attrs.get("title") or "Untitled Cue").replace('"', "'")
RowName(title) == ReplaceQuotes(IF title = <<>> THEN UntitledCue ELSE title)

Digits == {"0", "1", "2", "3", "4", "5", "6", "7", "8", "9"}

DigitVal(c) ==
    CASE c = "0" -> 0 [] c = "1" -> 1 [] c = "2" -> 2 [] c = "3" -> 3
      [] c = "4" -> 4 [] c = "5" -> 5 [] c = "6" -> 6 [] c = "7" -> 7
      [] c = "8" -> 8 [] c = "9" -> 9

RECURSIVE LStrip(_)
LStrip(s) == IF s # <<>> /\ Head(s) = " " THEN LStrip(Tail(s)) ELSE s

RECURSIVE RStrip(_)
RStrip(s) ==
    IF s # <<>> /\ s[Len(s)] = " " THEN RStrip(SubSeq(s, 1, Len(s) - 1)) ELSE s

\* str.strip()
Strip(s) == RStrip(LStrip(s))

RECURSIVE DigitsValue(_)
DigitsValue(s) ==
    IF s = <<>> THEN 0
    ELSE 10 * DigitsValue(SubSeq(s, 1, Len(s) - 1)) + DigitVal(s[Len(s)])

AllDigits(s) == s # <<>> /\ \A i \in 1..Len(s) : s[i] \in Digits

\* int(text): an optional sign and decimal digits; anything else raises
\* ValueError, reported here as ok = FALSE
ParseInt(s) ==
    LET t == Strip(s)
        signed == t # <<>> /\ Head(t) \in {"+", "-"}
        body == IF signed THEN Tail(t) ELSE t
    IN  IF AllDigits(body)
        THEN [ok |-> TRUE,
              val |-> IF signed /\ Head(t) = "-" THEN 0 - DigitsValue(body)
                      ELSE DigitsValue(body)]
        ELSE [ok |-> FALSE, val |-> 0]

\* ------------------------------------------------------------------ offset

\* a count that is not clamped at zero
ExistingCountUnclamped(text) ==
    LET stripped == Strip(text)
        parsed == ParseInt(IF stripped = <<>> THEN <<"0">> ELSE stripped)
    IN  IF parsed.ok THEN parsed.val ELSE 0

\* lines 542-549 of _collect_preview_rows
ExistingCount(text) ==
    LET stripped == Strip(text)
        parsed == ParseInt(IF stripped = <<>> THEN <<"0">> ELSE stripped)
        n == IF parsed.ok THEN parsed.val ELSE 0
    IN  IF n < 0 THEN 0 ELSE n

SnapshotOffset(has_existing, text) ==
    IF has_existing THEN ExistingCount(text) ELSE 0

\* ------------------------------------------------------------------ plan times

NoTime == 0 - 1

UtcOffsetHours == 6

\* time of day of an instant (hours since the epoch, UTC) in LOCAL_TZ
LocalHour(t) == (t + 24 - UtcOffsetHours) % 24

NoStart == [kind |-> "none", t |-> 0]

\* the local time string of format_time_label: the hour of the day, or NoTime
\* when starts_at is missing or does not parse
LocalStr(starts) ==
    IF starts.kind \in {"utc", "naive"} THEN LocalHour(starts.t) ELSE NoTime

\* format_time_label(attrs)
format_time_label(attrs) == [name |-> attrs.name, local |-> LocalStr(attrs.starts_at)]

EmptyLabel == [name |-> "", local |-> NoTime]
DefaultLabel == [name |-> "(default)", local |-> NoTime]

\* label or "(default)"
LabelOrDefault(label) == IF label = EmptyLabel THEN DefaultLabel ELSE label

\* ------------------------------------------------------------------ plan data

\* items_data["data"]: the plan items of the loaded plan
PlanItems ==
    << [id |-> 1, item_type |-> "song",   title |-> <<"S", "o", "n", "g">>],
       [id |-> 2, item_type |-> "header", title |-> <<"H", "d", "r">>],
       [id |-> 3, item_type |-> "item",   title |-> <<DQ, "h", "i", DQ>>],
       [id |-> 4, item_type |-> "media",  title |-> <<>>],
       [id |-> 5, item_type |-> "song",   title |-> <<>>] >>

\* self.items_data = None; plan names the plan a payload was fetched for
NoData == [loaded |-> FALSE, plan |-> 0, included |-> <<>>, data |-> <<>>]

\* a sort key that forgets live_start_at
OrderingKeyScheduledOnly(it) == it.starts_at

\* x["attributes"].get("live_start_at") or x["attributes"].get("starts_at") or ""
\* (lines 568-570); 0 stands for None and for ""
OrderingKey(it) ==
    IF it.live_start_at # 0 THEN it.live_start_at ELSE it.starts_at

\* list.sort(key=...) is stable: an element goes after every element already
\* placed whose key is not greater.  Sequences hold indices into "included".
RECURSIVE InsertByKey(_, _, _)
InsertByKey(sorted, i, inc) ==
    IF sorted = <<>> \/ OrderingKey(inc[sorted[Len(sorted)]]) <= OrderingKey(inc[i])
    THEN Append(sorted, i)
    ELSE Append(InsertByKey(SubSeq(sorted, 1, Len(sorted) - 1), i, inc),
                sorted[Len(sorted)])

RECURSIVE SortByKey(_, _)
SortByKey(arr, inc) ==
    IF arr = <<>> THEN <<>>
    ELSE InsertByKey(SortByKey(SubSeq(arr, 1, Len(arr) - 1), inc), arr[Len(arr)], inc)

\* ------------------------------------------------------------------ the build

\* curselection(): the selected positions of the list, ascending
RECURSIVE SetToSeq(_)
SetToSeq(S) ==
    IF S = {} THEN <<>>
    ELSE LET m == CHOOSE x \in S : \A y \in S : x <= y
         IN  <<m>> \o SetToSeq(S \ {m})

\* a mapping that keeps one time id per label, the first
TimeIdsOfLabelFirst(pts, lbl) ==
    IF \E i \in 1..Len(pts) : LabelOrDefault(pts[i].label) = lbl
    THEN <<pts[CHOOSE i \in 1..Len(pts) :
                  /\ LabelOrDefault(pts[i].label) = lbl
                  /\ \A j \in 1..(i - 1) : LabelOrDefault(pts[j].label) # lbl].id>>
    ELSE <<>>

\* time_id_by_label[lbl] (lines 532-535): the ids of the plan times whose
\* label is lbl, in the order of self.plan_times
RECURSIVE TimeIdsOfLabel(_, _)
TimeIdsOfLabel(pts, lbl) ==
    IF pts = <<>> THEN <<>>
    ELSE (IF LabelOrDefault(Head(pts).label) = lbl THEN <<Head(pts).id>> ELSE <<>>)
         \o TimeIdsOfLabel(Tail(pts), lbl)

\* by_time[tid] (lines 554-561): the ItemTime entries of "included" that belong
\* to plan time tid, in the order of "included"
RECURSIVE ByTime(_, _, _)
ByTime(inc, tid, from) ==
    IF from > Len(inc) THEN <<>>
    ELSE (IF inc[from].type = "ItemTime" /\ inc[from].plan_time = tid
          THEN <<from>> ELSE <<>>)
         \o ByTime(inc, tid, from + 1)

\* the inner loop of lines 566-571: one sorted group per time id of a label
RECURSIVE GroupsOfTids(_, _, _)
GroupsOfTids(tids, inc, pos) ==
    IF tids = <<>> THEN <<>>
    ELSE <<[pos |-> pos, tid |-> Head(tids),
            arr |-> SortByKey(ByTime(inc, Head(tids), 1), inc)]>>
         \o GroupsOfTids(Tail(tids), inc, pos)

\* "sequences" (lines 563-571): for each selected label, in list order, the
\* groups of its time ids; pos is the position of the label in the selection
RECURSIVE sequences(_, _, _, _)
sequences(labels, pts, inc, pos) ==
    IF pos > Len(labels) THEN <<>>
    ELSE GroupsOfTids(TimeIdsOfLabel(pts, LabelOrDefault(labels[pos])), inc, pos)
         \o sequences(labels, pts, inc, pos + 1)

\* next((p for p in plan_items if p["id"] == item_id), None): position of the
\* first plan item with that id, 0 when there is none
RECURSIVE FindItem(_, _, _)
FindItem(items, item_id, from) ==
    IF from > Len(items) THEN 0
    ELSE IF items[from].id = item_id THEN from
    ELSE FindItem(items, item_id, from + 1)

\* a type filter that lets headers through
CueTypesWithHeader == {"item", "song", "header"}

\* ("item", "song") of line 586
CueTypes == {"item", "song"}

\* a filter that forgets the exclude flag
EmitsExcluded(it, items) ==
    /\ it.item # 0
    /\ FindItem(items, it.item, 1) # 0
    /\ items[FindItem(items, it.item, 1)].item_type \in {"item", "song"}

\* lines 576-587: TRUE when the item time yields a row
Emits(it, items) ==
    /\ ~it.exclude
    /\ it.item # 0
    /\ FindItem(items, it.item, 1) # 0
    /\ items[FindItem(items, it.item, 1)].item_type \in CueTypes

\* lines 573-590 for one group: the entries that yield a row, each with the
\* group it came from
RECURSIVE EmitGroup(_, _, _, _)
EmitGroup(g, k, inc, items) ==
    IF k > Len(g.arr) THEN <<>>
    ELSE (IF Emits(inc[g.arr[k]], items)
          THEN <<[it |-> g.arr[k], pos |-> g.pos, tid |-> g.tid]>> ELSE <<>>)
         \o EmitGroup(g, k + 1, inc, items)

RECURSIVE EmitAll(_, _, _)
EmitAll(groups, inc, items) ==
    IF groups = <<>> THEN <<>>
    ELSE EmitGroup(Head(groups), 1, inc, items) \o EmitAll(Tail(groups), inc, items)

\* a numbering whose snap_index starts one too high
NumberRowsFromOne(emitted, inc, items, offset) ==
    [k \in 1..Len(emitted) |->
        [seq |-> k,
         name |-> RowName(items[FindItem(items, inc[emitted[k].it].item, 1)].title),
         snap_index |-> offset + k]]

\* lines 589-594: the name of each emitted entry, then seq and snap_index by
\* enumerate(rows)
NumberRows(emitted, inc, items, offset) ==
    [k \in 1..Len(emitted) |->
        [seq |-> k,
         name |-> RowName(items[FindItem(items, inc[emitted[k].it].item, 1)].title),
         snap_index |-> offset + (k - 1)]]

\* _collect_preview_rows: (rows, snapshot_offset, err), and src, the item time
\* each row was made from.  The test of line 522 is never true, __init__
\* having set both attributes (lines 170-171), so the selection is looked at
\* first; without a payload line 551 raises AttributeError.
CollectPreviewRows(data, pts, lst, sel, has_existing, count_text) ==
    IF sel = {}
    THEN [rows |-> <<>>, src |-> <<>>, offset |-> 0,
          err |-> "Select at least one plan time."]
    ELSE IF ~data.loaded
    THEN [rows |-> <<>>, src |-> <<>>, offset |-> 0, err |-> "AttributeError"]
    ELSE LET cur == SetToSeq(sel)
             labels == [k \in 1..Len(cur) |-> lst[cur[k]]]
             offset == SnapshotOffset(has_existing, count_text)
             emitted == EmitAll(sequences(labels, pts, data.included, 1),
                                data.included, data.data)
         IN  [rows |-> NumberRows(emitted, data.included, data.data, offset),
              src |-> emitted, offset |-> offset, err |-> "none"]

\* ------------------------------------------------------------------ the load

\* datetime.max, the sort key of a plan time without an instant (line 502)
DatetimeMax == 1000000

NoInstant == [kind |-> "none", t |-> 0]

\* lines 487-495: datetime.fromisoformat of starts_at; a value with a zone
\* gives an aware datetime, one without a naive datetime, a malformed or
\* missing value None
InstantOf(starts) ==
    CASE starts.kind = "utc"   -> [kind |-> "aware", t |-> starts.t]
      [] starts.kind = "naive" -> [kind |-> "naive", t |-> starts.t]
      [] OTHER                 -> NoInstant

\* lines 482-499: self.plan_times of a times payload
NormalizePlanTimes(times) ==
    IF times = <<>>
    THEN <<[id |-> "default", label |-> DefaultLabel, instant |-> NoInstant]>>
    ELSE [k \in 1..Len(times) |->
            [id |-> times[k].id,
             label |-> format_time_label(times[k]),
             instant |-> InstantOf(times[k].starts_at)]]

\* x[2] or datetime.max
InstantKey(pt) == IF pt.instant.kind = "none" THEN DatetimeMax ELSE pt.instant.t

\* comparing an aware datetime with a naive one (datetime.max is naive) raises
\* TypeError; a sort of two or more keys of both kinds compares such a pair
SortRaises(pts) ==
    /\ Len(pts) >= 2
    /\ \E i \in 1..Len(pts) : pts[i].instant.kind = "aware"
    /\ \E i \in 1..Len(pts) : pts[i].instant.kind # "aware"

RECURSIVE InsertByInstant(_, _)
InsertByInstant(sorted, pt) ==
    IF sorted = <<>> \/ InstantKey(sorted[Len(sorted)]) <= InstantKey(pt)
    THEN Append(sorted, pt)
    ELSE Append(InsertByInstant(SubSeq(sorted, 1, Len(sorted) - 1), pt),
                sorted[Len(sorted)])

\* sorted(self.plan_times, key=lambda x: x[2] or datetime.max)
RECURSIVE SortByInstant(_)
SortByInstant(pts) ==
    IF pts = <<>> THEN <<>>
    ELSE InsertByInstant(SortByInstant(SubSeq(pts, 1, Len(pts) - 1)), pts[Len(pts)])

\* lines 501-503: the entries of lst_times after a load
ListLabels(pts) ==
    LET sorted == SortByInstant(pts)
    IN  [k \in 1..Len(sorted) |-> LabelOrDefault(sorted[k].label)]

NineAM == 9

\* "9:00 AM" in label (line 507)
HasNineAM(label) == label.local = NineAM \/ label.name = "9:00 AM Service"

\* lines 506-508: the entries preselected after a load
Preselected(lst) == {i \in 1..Len(lst) : HasNineAM(lst[i])}

\* ------------------------------------------------------------------ inputs

Utc(t) == [kind |-> "utc", t |-> t]

\* times payloads of the service catalog: two plan times in list order, two
\* whose list order is the reverse of their payload order, two with one label
TimesAscending ==
    << [id |-> "t1", name |-> "", starts_at |-> Utc(15)],
       [id |-> "t2", name |-> "", starts_at |-> Utc(17)] >>
TimesDescending ==
    << [id |-> "t1", name |-> "", starts_at |-> Utc(41)],
       [id |-> "t2", name |-> "", starts_at |-> Utc(15)] >>
TimesSameLabel ==
    << [id |-> "t1", name |-> "", starts_at |-> Utc(15)],
       [id |-> "t2", name |-> "", starts_at |-> Utc(39)] >>

\* a plan time without starts_at beside one with a zoned starts_at
TimesOneMissing ==
    << [id |-> "t1", name |-> "9:00 AM Service", starts_at |-> NoStart],
       [id |-> "t2", name |-> "", starts_at |-> Utc(17)] >>

\* the times payloads the build is tried on
TimesPayloads == {TimesDescending, TimesSameLabel}

ItemTime(tid, live, starts, excl, item) ==
    [type |-> "ItemTime", plan_time |-> tid, live_start_at |-> live,
     starts_at |-> starts, exclude |-> excl, item |-> item]

\* an entry of "included" that is no ItemTime
OtherIncluded ==
    [type |-> "Attachment", plan_time |-> "t1", live_start_at |-> 0,
     starts_at |-> 0, exclude |-> FALSE, item |-> 1]

\* the entries of "included": item times of both plan times with every
\* (live_start_at, starts_at) of TimePairs and a cue item; excluded item
\* times of a cue and of a header; item times of a header, of no item and of
\* an id no plan item has
TimePairs == {<<0, 0>>, <<0, 2>>, <<1, 2>>}


ItemTimeDomain ==
    {ItemTime("t1", tp[1], tp[2], FALSE, 1) : tp \in TimePairs}
    \cup {ItemTime("t2", tp[1], tp[2], FALSE, 3) : tp \in TimePairs}
    \cup {ItemTime("t1", 0, 2, TRUE, item) : item \in {1, 2}}
    \cup {ItemTime("t1", 0, 2, FALSE, item) : item \in {0, 2, 9}}

SeqsUpTo(S, n) == UNION {[1..k -> S] : k \in 0..n}

\* the contents of the "existing snapshot count" entry
CountTexts ==
    { <<"0">>, <<"2">>, <<"1", "2">>, <<"-", "5">>, <<"a", "b", "c">>, <<>>,
      <<" ", "3", " ">> }

\* ------------------------------------------------------------------ state

VARIABLES
    service_types,          \* self.service_types: ids of the fetched types
    selected_service_type,  \* id of the selected service type, 0 for None
    plans,                  \* self.plans: ids of the fetched plans
    selected_plan,          \* id of the selected plan, 0 for None
    cmb_plan,               \* state of the plan combobox
    items_data,             \* self.items_data (with the times payload)
    plan_times,             \* self.plan_times: (id, label, starts_at_dt)
    lst_times,              \* the entries of the plan-times listbox
    lst_sel,                \* the selected positions of the listbox
    chk_has_existing,       \* "Show already has snapshots"
    var_existing_count,     \* text of the existing-count entry
    preview_rows,           \* self.preview_rows
    row_src,                \* history: the item time behind each preview row
    build_err,              \* history: err of the last _collect_preview_rows call
    btn_fetch_types, btn_fetch_plans, btn_load_plan_times, btn_preview, btn_send,
    var_ip, var_port,       \* the console endpoint fields
    net_faulty,             \* environment: local sends may raise
    types_task, plans_task, load_task,  \* the fetch and load threads, by number
    send_task               \* the send threads, by number

vars ==
    << service_types, selected_service_type, plans, selected_plan, cmb_plan,
       items_data, plan_times, lst_times, lst_sel, chk_has_existing,
       var_existing_count, preview_rows, row_src, build_err, btn_fetch_types,
       btn_fetch_plans, btn_load_plan_times, btn_preview, btn_send, var_ip,
       var_port, net_faulty, types_task, plans_task, load_task, send_task >>

catalog_vars == << service_types, selected_service_type, plans, selected_plan, cmb_plan >>
data_vars == << items_data, plan_times, lst_times, lst_sel >>
offset_vars == << chk_has_existing, var_existing_count >>
fetch_buttons == << btn_fetch_types, btn_fetch_plans, btn_load_plan_times >>
endpoint_vars == << var_ip, var_port, net_faulty >>
fetch_tasks == << types_task, plans_task, load_task >>

SendIds == 1..MaxSend

TaskIds == 1..MaxTasks

IdleTask == [pc |-> "idle"]

IdleSend == [pc |-> "idle", rows |-> <<>>, i |-> 0, created |-> 0, trace |-> <<>>]

\* the threads of one kind that have started and not ended
Alive(tasks) == {k \in TaskIds : tasks[k].pc \in {"start", "fetch"}}

\* threading.Thread(target=task).start(): the thread takes the first number
\* no thread of its kind has
FreeTask(tasks, k) ==
    /\ Cardinality(Alive(types_task)) + Cardinality(Alive(plans_task))
          + Cardinality(Alive(load_task)) < MaxTasks
    /\ tasks[k].pc = "idle"
    /\ \A j \in 1..(k - 1) : tasks[j].pc # "idle"

\* no call of _collect_preview_rows yet
NoCall == "never"

\* ------------------------------------------------------------------ the service catalog

\* the service types the catalog returns
ServiceTypeIds == <<1, 2>>

\* the answers of fetch_service_types: an error, no type, the types
TypesResults == {"error", <<>>, ServiceTypeIds}

\* the future plans of a service type; the second type has none
PlansOf(stid) == IF stid = 1 THEN <<1, 2, 3>> ELSE <<>>

\* the items and times the catalog returns for a plan
IncludedOf(pid) ==
    IF pid = 1
    THEN << ItemTime("t1", 0, 2, FALSE, 1), ItemTime("t2", 0, 1, FALSE, 5),
            ItemTime("t1", 1, 2, FALSE, 3), ItemTime("t1", 0, 1, TRUE, 1) >>
    ELSE << ItemTime("t1", 0, 1, FALSE, 1), OtherIncluded,
            ItemTime("t2", 0, 1, FALSE, 2) >>

TimesOf(pid) ==
    CASE pid = 1 -> TimesAscending
      [] pid = 2 -> TimesSameLabel
      [] OTHER   -> TimesOneMissing

\* ------------------------------------------------------------------ helpers of App

\* _clear_preview (lines 674-677)
ClearPreview ==
    /\ preview_rows' = <<>>
    /\ row_src' = <<>>

\* ------------------------------------------------------------------ fetch service types

\* on_fetch_types (lines 364-392): starts the thread
on_fetch_types ==
    /\ btn_fetch_types = "normal"
    /\ \E k \in TaskIds :
          /\ FreeTask(types_task, k)
          /\ types_task' = [types_task EXCEPT ![k] = [pc |-> "start"]]
    /\ UNCHANGED << catalog_vars, data_vars, offset_vars, preview_rows, row_src, build_err,
                    fetch_buttons, btn_preview, btn_send, endpoint_vars,
                    plans_task, load_task, send_task >>

\* line 372
TypesTaskStart(k) ==
    /\ types_task[k].pc = "start"
    /\ btn_fetch_types' = "disabled"
    /\ types_task' = [types_task EXCEPT ![k] = [pc |-> "fetch"]]
    /\ UNCHANGED << catalog_vars, data_vars, offset_vars, preview_rows, row_src, build_err,
                    btn_fetch_plans, btn_load_plan_times, btn_preview, btn_send,
                    endpoint_vars, plans_task, load_task, send_task >>

\* lines 374-390: the catalog answers with an error or with the types, then
\* the button is enabled
TypesTaskFinish(k) ==
    /\ types_task[k].pc = "fetch"
    /\ \E types \in TypesResults :
          IF types = "error"
          THEN UNCHANGED << service_types, btn_fetch_plans >>
          ELSE /\ service_types' = types
               /\ btn_fetch_plans' = "normal"
    /\ btn_fetch_types' = "normal"
    /\ types_task' = [types_task EXCEPT ![k] = IdleTask]
    /\ UNCHANGED << selected_service_type, plans, selected_plan, cmb_plan,
                    data_vars, offset_vars, preview_rows, row_src, build_err,
                    btn_load_plan_times, btn_preview, btn_send, endpoint_vars,
                    plans_task, load_task, send_task >>

TypesTask(k) ==
    \/ TypesTaskStart(k)
    \/ TypesTaskFinish(k)

\* on_service_selected (lines 394-405)
on_service_selected ==
    /\ \E idx \in 1..Len(service_types) :
          selected_service_type' = service_types[idx]
    /\ ClearPreview
    /\ UNCHANGED << service_types, plans, selected_plan, cmb_plan, data_vars,
                    offset_vars, build_err, fetch_buttons, btn_preview, btn_send,
                    endpoint_vars, fetch_tasks, send_task >>

\* ------------------------------------------------------------------ fetch plans

\* on_fetch_plans (lines 407-450): starts the thread for the selected type
on_fetch_plans ==
    /\ btn_fetch_plans = "normal"
    /\ selected_service_type # 0
    /\ \E k \in TaskIds :
          /\ FreeTask(plans_task, k)
          /\ plans_task' = [plans_task EXCEPT ![k] =
                               [pc |-> "start", stid |-> selected_service_type]]
    /\ UNCHANGED << catalog_vars, data_vars, offset_vars, preview_rows, row_src, build_err,
                    fetch_buttons, btn_preview, btn_send, endpoint_vars,
                    types_task, load_task, send_task >>

\* line 421
PlansTaskStart(k) ==
    /\ plans_task[k].pc = "start"
    /\ btn_fetch_plans' = "disabled"
    /\ plans_task' = [plans_task EXCEPT ![k].pc = "fetch"]
    /\ UNCHANGED << catalog_vars, data_vars, offset_vars, preview_rows, row_src, build_err,
                    btn_fetch_types, btn_load_plan_times, btn_preview, btn_send,
                    endpoint_vars, types_task, load_task, send_task >>

\* lines 423-427: the catalog answers with an error
PlansTaskError(k) ==
    /\ plans_task[k].pc = "fetch"
    /\ btn_fetch_plans' = "normal"
    /\ plans_task' = [plans_task EXCEPT ![k] = IdleTask]
    /\ UNCHANGED << catalog_vars, data_vars, offset_vars, preview_rows, row_src, build_err,
                    btn_fetch_types, btn_load_plan_times, btn_preview, btn_send,
                    endpoint_vars, types_task, load_task, send_task >>

\* lines 428-437: the service type has no future plan
PlansTaskEmpty(k) ==
    /\ plans_task[k].pc = "fetch"
    /\ PlansOf(plans_task[k].stid) = <<>>
    /\ plans' = <<>>
    /\ cmb_plan' = "disabled"
    /\ btn_load_plan_times' = "disabled"
    /\ btn_preview' = "disabled"
    /\ ClearPreview
    /\ btn_fetch_plans' = "normal"
    /\ plans_task' = [plans_task EXCEPT ![k] = IdleTask]
    /\ UNCHANGED << service_types, selected_service_type, selected_plan,
                    data_vars, offset_vars, build_err, btn_fetch_types, btn_send,
                    endpoint_vars, types_task, load_task, send_task >>

\* lines 438-448: the plans are listed, the first one is selected through
\* on_plan_selected
PlansTaskFinish(k) ==
    /\ plans_task[k].pc = "fetch"
    /\ PlansOf(plans_task[k].stid) # <<>>
    /\ plans' = PlansOf(plans_task[k].stid)
    /\ cmb_plan' = "readonly"
    /\ selected_plan' = plans'[1]
    /\ ClearPreview
    /\ btn_load_plan_times' = "normal"
    /\ btn_fetch_plans' = "normal"
    /\ plans_task' = [plans_task EXCEPT ![k] = IdleTask]
    /\ UNCHANGED << service_types, selected_service_type, data_vars, offset_vars,
                    build_err, btn_fetch_types, btn_preview, btn_send, endpoint_vars,
                    types_task, load_task, send_task >>

PlansTask(k) ==
    \/ PlansTaskStart(k)
    \/ PlansTaskError(k)
    \/ PlansTaskEmpty(k)
    \/ PlansTaskFinish(k)

\* on_plan_selected (lines 452-460), from the combobox
on_plan_selected ==
    /\ cmb_plan = "readonly"
    /\ \E idx \in 1..Len(plans) : selected_plan' = plans[idx]
    /\ ClearPreview
    /\ UNCHANGED << service_types, selected_service_type, plans, cmb_plan,
                    data_vars, offset_vars, build_err, fetch_buttons, btn_preview,
                    btn_send, endpoint_vars, fetch_tasks, send_task >>

\* ------------------------------------------------------------------ load plan times

\* on_load_plan_times (lines 462-518): starts the thread for the selected plan
on_load_plan_times ==
    /\ btn_load_plan_times = "normal"
    /\ selected_service_type # 0
    /\ selected_plan # 0
    /\ \E k \in TaskIds :
          /\ FreeTask(load_task, k)
          /\ load_task' = [load_task EXCEPT ![k] = [pc |-> "start", pid |-> selected_plan]]
    /\ UNCHANGED << catalog_vars, data_vars, offset_vars, preview_rows, row_src, build_err,
                    fetch_buttons, btn_preview, btn_send, endpoint_vars,
                    types_task, plans_task, send_task >>

\* line 472
LoadTaskStart(k) ==
    /\ load_task[k].pc = "start"
    /\ btn_load_plan_times' = "disabled"
    /\ load_task' = [load_task EXCEPT ![k].pc = "fetch"]
    /\ UNCHANGED << catalog_vars, data_vars, offset_vars, preview_rows, row_src, build_err,
                    btn_fetch_types, btn_fetch_plans, btn_preview, btn_send,
                    endpoint_vars, types_task, plans_task, send_task >>

\* lines 474-478: the catalog answers with an error
LoadTaskError(k) ==
    /\ load_task[k].pc = "fetch"
    /\ btn_load_plan_times' = "normal"
    /\ load_task' = [load_task EXCEPT ![k] = IdleTask]
    /\ UNCHANGED << catalog_vars, data_vars, offset_vars, preview_rows, row_src, build_err,
                    btn_fetch_types, btn_fetch_plans, btn_preview, btn_send,
                    endpoint_vars, types_task, plans_task, send_task >>

\* lines 479-516: the payload is stored, the list is rebuilt and preselected,
\* the preview is cleared
LoadTaskFinish(k) ==
    /\ load_task[k].pc = "fetch"
    /\ LET pts == NormalizePlanTimes(TimesOf(load_task[k].pid))
       IN  /\ ~SortRaises(pts)
           /\ items_data' = [loaded |-> TRUE, plan |-> load_task[k].pid,
                             included |-> IncludedOf(load_task[k].pid),
                             data |-> PlanItems]
           /\ plan_times' = pts
           /\ lst_times' = ListLabels(pts)
           /\ lst_sel' = Preselected(lst_times')
    /\ btn_preview' = "normal"
    /\ btn_send' = "disabled"
    /\ ClearPreview
    /\ btn_load_plan_times' = "normal"
    /\ load_task' = [load_task EXCEPT ![k] = IdleTask]
    /\ UNCHANGED << catalog_vars, offset_vars, build_err, btn_fetch_types,
                    btn_fetch_plans, endpoint_vars, types_task, plans_task, send_task >>

\* lines 479-502 when sorted() raises: the payload and self.plan_times are
\* stored, the list is emptied, and the thread ends with the button disabled
LoadTaskRaise(k) ==
    /\ load_task[k].pc = "fetch"
    /\ LET pts == NormalizePlanTimes(TimesOf(load_task[k].pid))
       IN  /\ SortRaises(pts)
           /\ items_data' = [loaded |-> TRUE, plan |-> load_task[k].pid,
                             included |-> IncludedOf(load_task[k].pid),
                             data |-> PlanItems]
           /\ plan_times' = pts
           /\ lst_times' = <<>>
           /\ lst_sel' = {}
    /\ load_task' = [load_task EXCEPT ![k] = [pc |-> "raised"]]
    /\ UNCHANGED << catalog_vars, offset_vars, preview_rows, row_src, build_err,
                    fetch_buttons, btn_preview, btn_send, endpoint_vars,
                    types_task, plans_task, send_task >>

LoadTask(k) ==
    \/ LoadTaskStart(k)
    \/ LoadTaskError(k)
    \/ LoadTaskFinish(k)
    \/ LoadTaskRaise(k)

\* ------------------------------------------------------------------ selection and offset

\* the user changes the selection of lst_times; the listbox has no handler
\* bound to it (lines 262-265)
SelectTimes ==
    /\ lst_times # <<>>
    /\ \E S \in SUBSET (1..Len(lst_times)) :
          /\ S # lst_sel
          /\ lst_sel' = S
    /\ UNCHANGED << catalog_vars, items_data, plan_times, lst_times, offset_vars,
                    preview_rows, row_src, build_err, fetch_buttons, btn_preview, btn_send,
                    endpoint_vars, fetch_tasks, send_task >>

\* _toggle_existing (lines 666-672)
toggle_existing ==
    /\ chk_has_existing' = ~chk_has_existing
    /\ ClearPreview
    /\ UNCHANGED << catalog_vars, data_vars, var_existing_count, build_err,
                    fetch_buttons, btn_preview, btn_send, endpoint_vars,
                    fetch_tasks, send_task >>

\* the user types into the existing-count entry, enabled by the toggle
\* (lines 278-280, 667-670)
EditExistingCount ==
    /\ chk_has_existing
    /\ \E text \in CountTexts :
          /\ text # var_existing_count
          /\ var_existing_count' = text
    /\ UNCHANGED << catalog_vars, data_vars, chk_has_existing, preview_rows,
                    row_src, build_err, fetch_buttons, btn_preview, btn_send,
                    endpoint_vars, fetch_tasks, send_task >>

\* ------------------------------------------------------------------ preview

\* _collect_preview_rows (lines 521-596) called on its own: it reads the
\* application and returns; only its result is recorded
collect_preview_rows ==
    /\ build_err' = CollectPreviewRows(items_data, plan_times, lst_times, lst_sel,
                                       chk_has_existing, var_existing_count).err
    /\ UNCHANGED << catalog_vars, data_vars, offset_vars, preview_rows, row_src,
                    fetch_buttons, btn_preview, btn_send, endpoint_vars,
                    fetch_tasks, send_task >>

\* a preview that appends the new rows to the rows of the last preview
on_preview_appending ==
    /\ btn_preview = "normal"
    /\ LET r == CollectPreviewRows(items_data, plan_times, lst_times, lst_sel,
                                   chk_has_existing, var_existing_count)
       IN  /\ build_err' = r.err
           /\ IF r.err # "none"
              THEN UNCHANGED << preview_rows, row_src, btn_send >>
              ELSE /\ preview_rows' = preview_rows \o r.rows
                   /\ row_src' = row_src \o r.src
                   /\ btn_send' = IF r.rows # <<>> THEN "normal" ELSE "disabled"
    /\ UNCHANGED << catalog_vars, data_vars, offset_vars, fetch_buttons,
                    btn_preview, endpoint_vars, fetch_tasks, send_task >>

\* a preview that enables Send whatever the number of rows
on_preview_enabling ==
    /\ btn_preview = "normal"
    /\ LET r == CollectPreviewRows(items_data, plan_times, lst_times, lst_sel,
                                   chk_has_existing, var_existing_count)
       IN  /\ build_err' = r.err
           /\ IF r.err # "none"
              THEN UNCHANGED << preview_rows, row_src, btn_send >>
              ELSE /\ preview_rows' = r.rows
                   /\ row_src' = r.src
                   /\ btn_send' = "normal"
    /\ UNCHANGED << catalog_vars, data_vars, offset_vars, fetch_buttons,
                    btn_preview, endpoint_vars, fetch_tasks, send_task >>

\* a preview that clears the rows when the build fails
on_preview_clearing ==
    /\ btn_preview = "normal"
    /\ LET r == CollectPreviewRows(items_data, plan_times, lst_times, lst_sel,
                                   chk_has_existing, var_existing_count)
       IN  /\ build_err' = r.err
           /\ preview_rows' = r.rows
           /\ row_src' = r.src
           /\ btn_send' = IF r.rows # <<>> THEN "normal" ELSE "disabled"
    /\ UNCHANGED << catalog_vars, data_vars, offset_vars, fetch_buttons,
                    btn_preview, endpoint_vars, fetch_tasks, send_task >>

\* on_preview (lines 598-613)
on_preview ==
    /\ btn_preview = "normal"
    /\ LET r == CollectPreviewRows(items_data, plan_times, lst_times, lst_sel,
                                   chk_has_existing, var_existing_count)
       IN  /\ build_err' = r.err
           /\ IF r.err # "none"
              THEN UNCHANGED << preview_rows, row_src, btn_send >>
              ELSE /\ preview_rows' = r.rows
                   /\ row_src' = r.src
                   /\ btn_send' = IF r.rows # <<>> THEN "normal" ELSE "disabled"
    /\ UNCHANGED << catalog_vars, data_vars, offset_vars, fetch_buttons,
                    btn_preview, endpoint_vars, fetch_tasks, send_task >>

\* ------------------------------------------------------------------ send

\* time.sleep(0.2), in milliseconds (lines 651, 653)
SleepMs == 200

CreateEvent(row, ok) == [op |-> "create", index |-> row.snap_index, value |-> 0, ok |-> ok]
RenameEvent(row, ok) == [op |-> "rename", index |-> row.snap_index, name |-> row.name, ok |-> ok]
SleepEvent == [op |-> "sleep", ms |-> SleepMs]

\* whether a call into the transport returns (TRUE) or raises (FALSE): it
\* raises only when the network stack of the machine is failing
SendOutcomes == IF net_faulty THEN BOOLEAN ELSE {TRUE}

\* the first thread number not yet used
FreeSend(k) == send_task[k].pc = "idle" /\ \A j \in 1..(k - 1) : send_task[j].pc # "idle"

\* the contents of the two endpoint entries (lines 213-218)
HostTexts == {<<"h">>, <<>>, <<" ">>}
PortTexts == {<<"8", "0", "0", "0">>, <<>>, <<"a", "b">>, <<" ", "8", " ">>}

\* the user types into the IP or the port entry
EditEndpoint ==
    /\ \E ip \in HostTexts, port \in PortTexts :
          /\ <<ip, port>> # <<var_ip, var_port>>
          /\ var_ip' = ip
          /\ var_port' = port
    /\ UNCHANGED << catalog_vars, data_vars, offset_vars, preview_rows, row_src, build_err,
                    fetch_buttons, btn_preview, btn_send, net_faulty, fetch_tasks,
                    send_task >>

\* a send handler that does not look at the port
on_send_any_port ==
    /\ btn_send = "normal"
    /\ Strip(var_ip) # <<>>
    /\ preview_rows # <<>>
    /\ \E k \in SendIds :
          /\ send_task[k].pc = "idle" /\ \A j \in 1..(k - 1) : send_task[j].pc # "idle"
          /\ send_task' = [send_task EXCEPT ![k].pc = "start"]
    /\ UNCHANGED << catalog_vars, data_vars, offset_vars, preview_rows, row_src, build_err,
                    fetch_buttons, btn_preview, btn_send, endpoint_vars, fetch_tasks >>

\* on_send (lines 615-632 and 663): the endpoint is filled in, the port is a
\* number, there are rows, the user confirms; the thread is started
on_send ==
    /\ btn_send = "normal"
    /\ Strip(var_ip) # <<>>
    /\ Strip(var_port) # <<>>
    /\ ParseInt(Strip(var_port)).ok
    /\ preview_rows # <<>>
    /\ \E k \in SendIds :
          /\ FreeSend(k)
          /\ send_task' = [send_task EXCEPT ![k].pc = "start"]
    /\ UNCHANGED << catalog_vars, data_vars, offset_vars, preview_rows, row_src, build_err,
                    fetch_buttons, btn_preview, btn_send, endpoint_vars, fetch_tasks >>

\* lines 635-643: the button is disabled and the client is made; when that
\* raises the button is enabled again and the thread ends
SendStart(k) ==
    /\ send_task[k].pc = "start"
    /\ \E client_ok \in SendOutcomes :
          IF client_ok
          THEN /\ btn_send' = "disabled"
               /\ send_task' = [send_task EXCEPT ![k].pc = "loop"]
          ELSE /\ btn_send' = "normal"
               /\ send_task' = [send_task EXCEPT ![k].pc = "failed"]
    /\ UNCHANGED << catalog_vars, data_vars, offset_vars, preview_rows, row_src, build_err,
                    fetch_buttons, btn_preview, endpoint_vars, fetch_tasks >>

\* a loop that leaves out every other row
NextRowSkipping(t) ==
    [t EXCEPT !.i = t.i + 2,
              !.pc = IF t.i + 2 <= Len(t.rows) THEN "create" ELSE "finish"]

\* what follows row i of the loop of line 646
NextRow(t) ==
    [t EXCEPT !.i = t.i + 1,
              !.pc = IF t.i + 1 <= Len(t.rows) THEN "create" ELSE "finish"]

\* lines 645-646: created = 0 and the loop starts on the list that
\* self.preview_rows is at that moment
SendLoop(k) ==
    /\ send_task[k].pc = "loop"
    /\ send_task' = [send_task EXCEPT ![k] =
          [pc |-> IF preview_rows # <<>> THEN "create" ELSE "finish",
           rows |-> preview_rows, i |-> 1, created |-> 0, trace |-> <<>>]]
    /\ UNCHANGED << catalog_vars, data_vars, offset_vars, preview_rows, row_src, build_err,
                    fetch_buttons, btn_preview, btn_send, endpoint_vars, fetch_tasks >>

\* a create step with its own except clause: the rename follows a failure
CreateStepThenRename(t, ok) ==
    [t EXCEPT !.trace = IF ok THEN t.trace \o <<CreateEvent(t.rows[t.i], TRUE), SleepEvent>>
                        ELSE Append(t.trace, CreateEvent(t.rows[t.i], FALSE)),
              !.pc = "rename"]

\* a create step whose failure is not caught: the thread ends
CreateStepAborts(t, ok) ==
    IF ok
    THEN [t EXCEPT !.trace = t.trace \o <<CreateEvent(t.rows[t.i], TRUE), SleepEvent>>,
                   !.pc = "rename"]
    ELSE [t EXCEPT !.trace = Append(t.trace, CreateEvent(t.rows[t.i], FALSE)),
                   !.pc = "raised"]

\* lines 647-651 and 656-657 for the row the thread is at: the create
\* command, then the sleep; when send_message raises, the except clause logs
\* the index and the loop goes on with the next row
CreateStep(t, ok) ==
    IF ok
    THEN [t EXCEPT !.trace = t.trace \o <<CreateEvent(t.rows[t.i], TRUE), SleepEvent>>,
                   !.pc = "rename"]
    ELSE NextRow([t EXCEPT !.trace = Append(t.trace, CreateEvent(t.rows[t.i], FALSE))])

\* a rename step that counts the row before the command
RenameStepCountsFailure(t, ok) ==
    NextRow([t EXCEPT
               !.trace = IF ok THEN t.trace \o <<RenameEvent(t.rows[t.i], TRUE), SleepEvent>>
                         ELSE Append(t.trace, RenameEvent(t.rows[t.i], FALSE)),
               !.created = t.created + 1])

\* a rename step without the sleep after the command
RenameStepNoSleep(t, ok) ==
    IF ok
    THEN NextRow([t EXCEPT !.trace = Append(t.trace, RenameEvent(t.rows[t.i], TRUE)),
                           !.created = t.created + 1])
    ELSE NextRow([t EXCEPT !.trace = Append(t.trace, RenameEvent(t.rows[t.i], FALSE))])

\* lines 652-657 for the row the thread is at: the rename command, the sleep,
\* created += 1; when send_message raises, the except clause logs the index
\* and the loop goes on with the next row
RenameStep(t, ok) ==
    IF ok
    THEN NextRow([t EXCEPT
                    !.trace = t.trace \o <<RenameEvent(t.rows[t.i], TRUE), SleepEvent>>,
                    !.created = t.created + 1])
    ELSE NextRow([t EXCEPT !.trace = Append(t.trace, RenameEvent(t.rows[t.i], FALSE))])

\* a rename step that looks its row up in self.preview_rows as it is now
SendRenameLive(k) ==
    /\ send_task[k].pc = "rename"
    /\ LET t == [send_task[k] EXCEPT !.rows = preview_rows]
       IN  send_task' = [send_task EXCEPT ![k] =
              IF t.i <= Len(t.rows) THEN RenameStep(t, TRUE)
              ELSE [t EXCEPT !.pc = "finish"]]
    /\ UNCHANGED << catalog_vars, data_vars, offset_vars, preview_rows, row_src, build_err,
                    fetch_buttons, btn_preview, btn_send, endpoint_vars, fetch_tasks >>

SendCreate(k) ==
    /\ send_task[k].pc = "create"
    /\ \E ok \in SendOutcomes :
          send_task' = [send_task EXCEPT ![k] = CreateStep(send_task[k], ok)]
    /\ UNCHANGED << catalog_vars, data_vars, offset_vars, preview_rows, row_src, build_err,
                    fetch_buttons, btn_preview, btn_send, endpoint_vars, fetch_tasks >>

SendRename(k) ==
    /\ send_task[k].pc = "rename"
    /\ \E ok \in SendOutcomes :
          send_task' = [send_task EXCEPT ![k] = RenameStep(send_task[k], ok)]
    /\ UNCHANGED << catalog_vars, data_vars, offset_vars, preview_rows, row_src, build_err,
                    fetch_buttons, btn_preview, btn_send, endpoint_vars, fetch_tasks >>

\* lines 659-661: the count is reported and the button is enabled
SendFinish(k) ==
    /\ send_task[k].pc = "finish"
    /\ send_task' = [send_task EXCEPT ![k].pc = "done"]
    /\ btn_send' = "normal"
    /\ UNCHANGED << catalog_vars, data_vars, offset_vars, preview_rows, row_src, build_err,
                    fetch_buttons, btn_preview, endpoint_vars, fetch_tasks >>

SendTask(k) ==
    \/ SendStart(k)
    \/ SendLoop(k)
    \/ SendCreate(k)
    \/ SendRename(k)
    \/ SendFinish(k)

\* ------------------------------------------------------------------ the application

Host == <<"h">>
Port == <<"8", "0", "0", "0">>

\* App.__init__ and _build_ui (lines 163-176, 230-289), with the endpoint of
\* the configuration file and no saved service type
Init ==
    /\ service_types = <<>>
    /\ selected_service_type = 0
    /\ plans = <<>>
    /\ selected_plan = 0
    /\ cmb_plan = "disabled"
    /\ items_data = NoData
    /\ plan_times = <<>>
    /\ lst_times = <<>>
    /\ lst_sel = {}
    /\ chk_has_existing = FALSE
    /\ var_existing_count = <<"0">>
    /\ preview_rows = <<>>
    /\ row_src = <<>>
    /\ build_err = NoCall
    /\ btn_fetch_types = "normal"
    /\ btn_fetch_plans = "disabled"
    /\ btn_load_plan_times = "disabled"
    /\ btn_preview = "disabled"
    /\ btn_send = "disabled"
    /\ var_ip = Host
    /\ var_port = Port
    /\ net_faulty = FALSE
    /\ types_task = [k \in TaskIds |-> IdleTask]
    /\ plans_task = [k \in TaskIds |-> IdleTask]
    /\ load_task = [k \in TaskIds |-> IdleTask]
    /\ send_task = [k \in SendIds |-> IdleSend]

Next ==
    \/ on_fetch_types
    \/ \E k \in TaskIds : TypesTask(k)
    \/ on_service_selected
    \/ on_fetch_plans
    \/ \E k \in TaskIds : PlansTask(k)
    \/ on_plan_selected
    \/ on_load_plan_times
    \/ \E k \in TaskIds : LoadTask(k)
    \/ SelectTimes
    \/ toggle_existing
    \/ EditExistingCount
    \/ on_preview
    \/ on_send
    \/ \E k \in SendIds : SendTask(k)

Spec == Init /\ [][Next]_vars

\* ------------------------------------------------------------------ the fetch and load threads

\* the catalog side of the application: the three fetch handlers, their
\* threads and the two comboboxes, from the start of the application
NextTasks ==
    \/ on_fetch_types
    \/ \E k \in TaskIds : TypesTask(k)
    \/ on_service_selected
    \/ on_fetch_plans
    \/ \E k \in TaskIds : PlansTask(k)
    \/ on_plan_selected
    \/ on_load_plan_times
    \/ \E k \in TaskIds : LoadTask(k)

SpecTasks == Init /\ [][NextTasks]_vars

\* a started thread is scheduled until it ends
SpecTasksFair ==
    /\ SpecTasks
    /\ \A k \in TaskIds :
          WF_vars(TypesTask(k)) /\ WF_vars(PlansTask(k)) /\ WF_vars(LoadTask(k))

\* ------------------------------------------------------------------ the build alone

\* the state after a load of plan pid with the given payloads: what
\* LoadTaskFinish leaves, all threads idle
Loaded(pid, included, times) ==
    /\ service_types = ServiceTypeIds
    /\ selected_service_type = 1
    /\ plans = PlansOf(1)
    /\ selected_plan = pid
    /\ cmb_plan = "readonly"
    /\ items_data = [loaded |-> TRUE, plan |-> pid, included |-> included,
                     data |-> PlanItems]
    /\ plan_times = NormalizePlanTimes(times)
    /\ lst_times = ListLabels(plan_times)
    /\ preview_rows = <<>>
    /\ row_src = <<>>
    /\ build_err = NoCall
    /\ btn_fetch_types = "normal"
    /\ btn_fetch_plans = "normal"
    /\ btn_load_plan_times = "normal"
    /\ btn_preview = "normal"
    /\ btn_send = "disabled"
    /\ var_ip = Host
    /\ var_port = Port
    /\ types_task = [k \in TaskIds |-> IdleTask]
    /\ plans_task = [k \in TaskIds |-> IdleTask]
    /\ load_task = [k \in TaskIds |-> IdleTask]
    /\ send_task = [k \in SendIds |-> IdleSend]

\* the inputs of _collect_preview_rows drawn from the bounded sets: a loaded
\* payload, a selection of the list, the offset fields
InitBuild ==
    /\ \E included \in SeqsUpTo(ItemTimeDomain, MaxItemTimes), times \in TimesPayloads :
          Loaded(1, included, times)
    /\ lst_sel \in (SUBSET (1..Len(lst_times))) \ {{}}
    /\ chk_has_existing \in BOOLEAN
    /\ var_existing_count = <<"2">>
    /\ net_faulty = FALSE

NextBuild == on_preview

SpecBuild == InitBuild /\ [][NextBuild]_vars

\* ------------------------------------------------------------------ preview and send

\* the foreground handlers of the preview and the send threads, from the
\* state a completed load of plan 1 or plan 2 leaves, on a working network
InitPreview ==
    /\ \E pid \in {1, 2} : Loaded(pid, IncludedOf(pid), TimesOf(pid))
    /\ lst_sel = Preselected(lst_times)
    /\ chk_has_existing = FALSE
    /\ var_existing_count = <<"2">>
    /\ net_faulty = FALSE

NextPreview ==
    \/ SelectTimes
    \/ toggle_existing
    \/ on_preview
    \/ on_send
    \/ \E k \in SendIds : SendTask(k)

SpecPreview == InitPreview /\ [][NextPreview]_vars

\* ------------------------------------------------------------------ the send threads

\* the send threads on a network whose sends may raise, for every selection
\* of the list of plan 1 and both values of the toggle
InitSend ==
    /\ Loaded(1, IncludedOf(1), TimesOf(1))
    /\ lst_sel \in (SUBSET (1..Len(lst_times))) \ {{}}
    /\ chk_has_existing \in BOOLEAN
    /\ var_existing_count = <<"2">>
    /\ net_faulty = TRUE

NextSend ==
    \/ on_preview
    \/ on_send
    \/ \E k \in SendIds : SendTask(k)

SpecSend == InitSend /\ [][NextSend]_vars

\* a started thread is scheduled until it ends
SpecSendFair == SpecSend /\ \A k \in SendIds : WF_vars(SendTask(k))

\* ------------------------------------------------------------------ the build and its preconditions

\* _collect_preview_rows called in the application as constructed and in the
\* application after a load of plan 1 or 2, under every selection of the
\* list, the empty one included
InitCollect ==
    \/ Init
    \/ /\ \E pid \in {1, 2} : Loaded(pid, IncludedOf(pid), TimesOf(pid))
       /\ lst_sel \in SUBSET (1..Len(lst_times))
       /\ chk_has_existing \in BOOLEAN
       /\ var_existing_count = <<"2">>
       /\ net_faulty = FALSE

NextCollect ==
    \/ collect_preview_rows
    \/ on_preview
    \/ SelectTimes
    \/ toggle_existing

SpecCollect == InitCollect /\ [][NextCollect]_vars

\* ------------------------------------------------------------------ the offset fields

\* the offset fields under every text of CountTexts, with the list of plan 1
InitOffset ==
    /\ Loaded(1, IncludedOf(1), TimesOf(1))
    /\ lst_sel \in (SUBSET (1..Len(lst_times))) \ {{}}
    /\ chk_has_existing \in BOOLEAN
    /\ var_existing_count \in CountTexts
    /\ net_faulty = FALSE

NextOffset ==
    \/ toggle_existing
    \/ EditExistingCount
    \/ on_preview

SpecOffset == InitOffset /\ [][NextOffset]_vars

\* ------------------------------------------------------------------ the endpoint fields

\* the send handler and its threads under every content of the endpoint
\* entries, with the preselected entry of plan 1, on a working and on a
\* failing network
InitEndpoint ==
    /\ Loaded(1, IncludedOf(1), TimesOf(1))
    /\ lst_sel = Preselected(lst_times)
    /\ chk_has_existing = FALSE
    /\ var_existing_count = <<"0">>
    /\ net_faulty \in BOOLEAN

NextEndpoint ==
    \/ EditEndpoint
    \/ on_preview
    \/ on_send
    \/ \E k \in SendIds : SendTask(k)

SpecEndpoint == InitEndpoint /\ [][NextEndpoint]_vars

\* ------------------------------------------------------------------ the preview and the Send button

\* the preview and send handlers after a load whose first plan time has a
\* cue and whose second has a header only: every selection of the list,
\* the empty one and the one that gives no row included
InitControls ==
    /\ Loaded(1, IncludedOf(2), TimesAscending)
    /\ lst_sel = Preselected(lst_times)
    /\ chk_has_existing = FALSE
    /\ var_existing_count = <<"2">>
    /\ net_faulty = FALSE

NextControls ==
    \/ SelectTimes
    \/ toggle_existing
    \/ on_preview
    \/ on_send
    \/ \E k \in SendIds : SendTask(k)

SpecControls == InitControls /\ [][NextControls]_vars

\* ------------------------------------------------------------------ the selected plan and the loaded data

\* the plan and service-type comboboxes, the load and the preview, from the
\* state a completed load of plan 1 leaves
InitPlan ==
    /\ Loaded(1, IncludedOf(1), TimesOf(1))
    /\ lst_sel = Preselected(lst_times)
    /\ chk_has_existing = FALSE
    /\ var_existing_count = <<"2">>
    /\ net_faulty = FALSE

NextPlan ==
    \/ on_service_selected
    \/ on_plan_selected
    \/ on_load_plan_times
    \/ \E k \in TaskIds : LoadTask(k)
    \/ on_preview

SpecPlan == InitPlan /\ [][NextPlan]_vars

\* ------------------------------------------------------------------ properties of the build

Included == items_data.included

\* the resolved offset of the current offset fields
ResolvedOffset == SnapshotOffset(chk_has_existing, var_existing_count)

\* the ordering key as the data model states it: the live start if present,
\* else the scheduled start, else the empty string (0)
KeyOfItemTime(it) ==
    IF it.live_start_at # 0 THEN it.live_start_at
    ELSE IF it.starts_at # 0 THEN it.starts_at
    ELSE 0

\* the list position of the pos-th selected entry
SelectedEntry(pos) ==
    CHOOSE x \in lst_sel : Cardinality({y \in lst_sel : y < x}) = pos - 1

\* the label of the plan time with the given id
LabelOfTid(tid) ==
    LabelOrDefault(plan_times[CHOOSE i \in 1..Len(plan_times) : plan_times[i].id = tid].label)

\* C1: after a build, the row at 1-based position k has seq = k and
\* snap_index = o + k - 1 for the resolved offset o, so the snap_index values
\* are o, o+1, ..., o+n-1 in row order; skipped item times consume no index.
C1_SeqAndSnapIndex ==
    \A k \in 1..Len(preview_rows) :
        /\ preview_rows[k].seq = k
        /\ preview_rows[k].snap_index = ResolvedOffset + k - 1

\* C1 witness: a build with offset 2 and two rows of one plan time that has a
\* skipped item time as well
C1_Witness ==
    /\ Len(preview_rows) >= 2
    /\ preview_rows[1].snap_index = 2
    /\ row_src[1].tid = row_src[2].tid
    /\ \E i \in 1..Len(Included) :
          /\ Included[i].plan_time = row_src[1].tid
          /\ \A k \in 1..Len(row_src) : row_src[k].it # i

\* C2: the rows are ordered by the order of the selected list entries, and
\* within one plan time by ascending ordering key of its item times; item
\* times of one plan time with equal keys keep the order of the loaded data.
C2_RowOrder ==
    /\ Len(row_src) = Len(preview_rows)
    /\ \A k \in 1..Len(row_src) :
          /\ row_src[k].pos \in 1..Cardinality(lst_sel)
          /\ LabelOfTid(row_src[k].tid) = lst_times[SelectedEntry(row_src[k].pos)]
          /\ Included[row_src[k].it].plan_time = row_src[k].tid
    /\ \A j, k \in 1..Len(row_src) :
          j < k =>
            /\ row_src[j].pos <= row_src[k].pos
            /\ (row_src[j].pos = row_src[k].pos /\ row_src[j].tid = row_src[k].tid) =>
                 LET kj == KeyOfItemTime(Included[row_src[j].it])
                     kk == KeyOfItemTime(Included[row_src[k].it])
                 IN  /\ kj <= kk
                     /\ kj = kk => row_src[j].it < row_src[k].it

\* C2 witness: rows of two selected entries, with two rows of one plan time
\* in the reverse of their order in the loaded data
C2_Witness ==
    /\ \E j, k \in 1..Len(row_src) : row_src[j].pos # row_src[k].pos
    /\ \E j, k \in 1..Len(row_src) :
          /\ j < k
          /\ row_src[j].tid = row_src[k].tid
          /\ row_src[j].it > row_src[k].it

\* C10: no row comes from an item time whose exclude flag is set, whatever
\* the type of its plan item, and the rows around it are numbered without a
\* gap: consecutive rows differ by one in seq and in snap_index.
C10_ExcludedDropped ==
    /\ \A k \in 1..Len(row_src) : ~Included[row_src[k].it].exclude
    /\ \A k \in 1..(Len(preview_rows) - 1) :
          /\ preview_rows[k + 1].seq = preview_rows[k].seq + 1
          /\ preview_rows[k + 1].snap_index = preview_rows[k].snap_index + 1

\* C10 witness: two rows of one plan time, numbered 1 and 2, with an excluded
\* item time of that plan time between them in the sorted group
C10_Witness ==
    /\ Len(preview_rows) = 2
    /\ preview_rows[2].seq = 2
    /\ row_src[1].tid = row_src[2].tid
    /\ \E i \in 1..Len(Included) :
          /\ Included[i].exclude
          /\ Included[i].plan_time = row_src[1].tid
          /\ row_src[1].it < i /\ i < row_src[2].it
          /\ KeyOfItemTime(Included[i]) = KeyOfItemTime(Included[row_src[1].it])
          /\ KeyOfItemTime(Included[i]) = KeyOfItemTime(Included[row_src[2].it])

\* the item time is an ItemTime whose item reference resolves to a loaded
\* plan item of type item or song
ResolvesToCue(it) ==
    /\ it.type = "ItemTime"
    /\ it.item # 0
    /\ \E p \in 1..Len(items_data.data) : items_data.data[p].id = it.item
    /\ \A p \in 1..Len(items_data.data) :
          items_data.data[p].id = it.item =>
            items_data.data[p].item_type \in {"item", "song"}

\* C11: every row comes from an item time whose item reference resolves to
\* a loaded plan item of type item or song; an item time with no item
\* reference, with a reference no plan item has, or with a plan item of
\* another type gives no row, and the build reports no error for it.
C11_RowsFromCueItems ==
    /\ build_err \in {NoCall, "none"}
    /\ \A k \in 1..Len(row_src) : ResolvesToCue(Included[row_src[k].it])
    /\ Len(preview_rows) = Len(row_src)

\* C11 witness: a build without error that gave a row of a plan time which
\* also has an item time with a dangling reference and one with no
\* reference or with a header, neither excluded
C11_Witness ==
    /\ build_err = "none"
    /\ Len(row_src) >= 1
    /\ \E i, j \in 1..Len(Included) :
          /\ Included[i].plan_time = row_src[1].tid
          /\ Included[j].plan_time = row_src[1].tid
          /\ ~Included[i].exclude /\ ~Included[j].exclude
          /\ Included[i].item = 9
          /\ Included[j].item \in {0, 2}

\* the position of the plan time with the given id in self.plan_times
PlanTimeIndex(tid) == CHOOSE i \in 1..Len(plan_times) : plan_times[i].id = tid

\* two plan times were loaded and they have one label
TwoTimesOneLabel ==
    /\ Len(plan_times) = 2
    /\ LabelOrDefault(plan_times[1].label) = LabelOrDefault(plan_times[2].label)

\* C12: when two plan times have the same label and one list entry of that
\* label is selected, every item time of either plan time that yields a row
\* yields exactly one, the rows of the plan time met first in the loaded list
\* come before all rows of the second, and each group is in ascending
\* ordering key.
C12_DuplicateLabelGroups ==
    (TwoTimesOneLabel /\ Cardinality(lst_sel) = 1 /\ build_err = "none") =>
        /\ \A i \in 1..Len(Included) :
              (ResolvesToCue(Included[i]) /\ ~Included[i].exclude) =>
                Cardinality({k \in 1..Len(row_src) : row_src[k].it = i}) = 1
        /\ \A j, k \in 1..Len(row_src) :
              j < k =>
                /\ PlanTimeIndex(row_src[j].tid) <= PlanTimeIndex(row_src[k].tid)
                /\ row_src[j].tid = row_src[k].tid =>
                      KeyOfItemTime(Included[row_src[j].it])
                        <= KeyOfItemTime(Included[row_src[k].it])

\* C12 witness: one entry selected of two with one label, a row of the first
\* plan time followed by two rows of the second that stand in the loaded data
\* in the reverse order
C12_Witness ==
    /\ TwoTimesOneLabel
    /\ Cardinality(lst_sel) = 1
    /\ Len(row_src) = 3
    /\ row_src[1].tid = plan_times[1].id
    /\ row_src[2].tid = plan_times[2].id
    /\ row_src[3].tid = plan_times[2].id
    /\ row_src[2].it > row_src[3].it

\* the integer a count text declares, for the texts of CountTexts that
\* declare one
DeclaredIntegers ==
    { [text |-> <<"0">>, val |-> 0], [text |-> <<"2">>, val |-> 2],
      [text |-> <<"1", "2">>, val |-> 12], [text |-> <<"-", "5">>, val |-> 0 - 5],
      [text |-> <<" ", "3", " ">>, val |-> 3] }

\* the offset the offset policy gives: 0 without the flag; with it the
\* declared count when that is an integer >= 0, else 0
PolicyOffset(flag, text) ==
    IF flag /\ \E d \in DeclaredIntegers : d.text = text /\ d.val >= 0
    THEN (CHOOSE d \in DeclaredIntegers : d.text = text).val
    ELSE 0

\* C13: the offset a build resolves is 0 when the flag is off, whatever the
\* count text; with the flag on it is the declared count when that is an
\* integer >= 0, and 0 when the text is no integer or is negative.  Every
\* build that gives rows numbers them from that offset, and no snap_index is
\* ever negative.
C13_OffsetResolution ==
    /\ [](\A k \in 1..Len(preview_rows) : preview_rows[k].snap_index >= 0)
    /\ [][(preview_rows' # preview_rows /\ preview_rows' # <<>>) =>
            preview_rows'[1].snap_index
              = PolicyOffset(chk_has_existing, var_existing_count)]_vars

\* C13 witness: a build with the flag on and the count text "-5", numbered
\* from 0
C13_Witness ==
    /\ chk_has_existing
    /\ var_existing_count = <<"-", "5">>
    /\ build_err = "none"
    /\ preview_rows # <<>>
    /\ preview_rows[1].snap_index = 0

IsCommand(e) == e.op \in {"create", "rename"}

\* the commands of a trace, in the order they were issued
Commands(trace) == SelectSeq(trace, IsCommand)

\* no command of the trace raised
NoSendError(trace) ==
    \A j \in 1..Len(trace) : IsCommand(trace[j]) => trace[j].ok

\* create(row 1), rename(row 1), create(row 2), rename(row 2), ...
ExpectedCommands(rows) ==
    [j \in 1..(2 * Len(rows)) |->
        IF j % 2 = 1
        THEN [op |-> "create", index |-> rows[(j + 1) \div 2].snap_index,
              value |-> 0, ok |-> TRUE]
        ELSE [op |-> "rename", index |-> rows[j \div 2].snap_index,
              name |-> rows[j \div 2].name, ok |-> TRUE]]

\* the thread is past its loop
LoopOver(t) == t.pc \in {"finish", "done"}

\* C3: in a send run over n rows without a local send error, the commands
\* issued so far are the first ones of create(row 1) with payload 0,
\* rename(row 1, name 1), create(row 2), ..., and when the loop is over
\* there are exactly 2n of them.
C3_CommandsInRowOrder ==
    \A k \in SendIds :
        LET t == send_task[k]
            cmds == Commands(t.trace)
        IN  NoSendError(t.trace) =>
              /\ Len(cmds) <= 2 * Len(t.rows)
              /\ cmds = SubSeq(ExpectedCommands(t.rows), 1, Len(cmds))
              /\ LoopOver(t) => Len(cmds) = 2 * Len(t.rows)

\* C3 witness: a finished run over two rows without an error
C3_Witness ==
    \E k \in SendIds :
        /\ send_task[k].pc = "done"
        /\ Len(send_task[k].rows) = 2
        /\ NoSendError(send_task[k].trace)
        /\ Len(Commands(send_task[k].trace)) = 4

FailedCreate(e) == e.op = "create" /\ ~e.ok

\* C6, as claimed: when the create command of a row raises, the rename
\* command of that row is still sent.
C6_RenameAfterFailedCreate ==
    \A k \in SendIds :
        LET t == send_task[k]
        IN  LoopOver(t) =>
              \A j \in 1..Len(t.trace) :
                  FailedCreate(t.trace[j]) =>
                    \E m \in (j + 1)..Len(t.trace) :
                        /\ t.trace[m].op = "rename"
                        /\ t.trace[m].index = t.trace[j].index

\* C6, amended: when the create command of a row raises, no rename command
\* is issued for that row; the next command is the create of the next row.
C6_FailedCreateSkipsRename ==
    \A k \in SendIds :
        LET t == send_task[k]
        IN  \A j \in 1..Len(t.trace) :
                FailedCreate(t.trace[j]) =>
                  /\ \A m \in 1..Len(t.trace) :
                        t.trace[m].op = "rename" => t.trace[m].index # t.trace[j].index
                  /\ j < Len(t.trace) =>
                        /\ t.trace[j + 1].op = "create"
                        /\ t.trace[j + 1].index = t.trace[j].index + 1

\* C6 witness: a finished run whose first create raised and whose second
\* row was sent
C6_Witness ==
    \E k \in SendIds :
        LET t == send_task[k]
        IN  /\ t.pc = "done"
            /\ Len(t.trace) >= 2
            /\ FailedCreate(t.trace[1])
            /\ t.trace[2].op = "create" /\ t.trace[2].ok

\* the snap_index of every create command of a trace, in order
RECURSIVE CreateIndices(_)
CreateIndices(trace) ==
    IF trace = <<>> THEN <<>>
    ELSE (IF Head(trace).op = "create" THEN <<Head(trace).index>> ELSE <<>>)
         \o CreateIndices(Tail(trace))

RowIndices(rows) == [r \in 1..Len(rows) |-> rows[r].snap_index]

InLoop(k) == send_task[k].pc \in {"create", "rename", "finish"}

\* C7: once a send thread is in its loop, the create command of every row
\* of its list is attempted, in row order, whatever commands raise: while
\* the thread is at row i the creates of the rows before i have been
\* attempted, when the loop is over those of all rows; no command ends the
\* thread, which always reaches its final report.
C7_EveryRowAttempted ==
    /\ [](\A k \in SendIds :
            LET t == send_task[k]
            IN  /\ t.pc = "create" =>
                     CreateIndices(t.trace) = SubSeq(RowIndices(t.rows), 1, t.i - 1)
                /\ t.pc = "rename" =>
                     CreateIndices(t.trace) = SubSeq(RowIndices(t.rows), 1, t.i)
                /\ LoopOver(t) => CreateIndices(t.trace) = RowIndices(t.rows)
                /\ t.pc \in {"idle", "start", "loop", "failed", "create", "rename",
                            "finish", "done"})
    /\ \A k \in SendIds : InLoop(k) ~> (send_task[k].pc = "done")

\* C7 witness: a finished run over three rows in which a command of the first
\* row and a command of the second row raised
C7_Witness ==
    \E k \in SendIds :
        LET t == send_task[k]
        IN  /\ t.pc = "done"
            /\ Len(t.rows) = 3
            /\ \E j \in 1..Len(t.trace) :
                  IsCommand(t.trace[j]) /\ ~t.trace[j].ok
                  /\ t.trace[j].index = t.rows[1].snap_index
            /\ \E j \in 1..Len(t.trace) :
                  IsCommand(t.trace[j]) /\ ~t.trace[j].ok
                  /\ t.trace[j].index = t.rows[2].snap_index

\* both commands of row r of the run were sent without an error
RowSent(t, r) ==
    /\ \E j \in 1..Len(t.trace) : t.trace[j] = CreateEvent(t.rows[r], TRUE)
    /\ \E j \in 1..Len(t.trace) : t.trace[j] = RenameEvent(t.rows[r], TRUE)

\* C8: the count a send run reports is the number of its rows for which
\* both the create and the rename command were sent without a local error.
C8_ReportedCount ==
    \A k \in SendIds :
        LET t == send_task[k]
        IN  LoopOver(t) =>
              t.created = Cardinality({r \in 1..Len(t.rows) : RowSent(t, r)})

\* C8 witness: a finished run that reports fewer rows than it had, and more
\* than none
C8_Witness ==
    \E k \in SendIds :
        LET t == send_task[k]
        IN  /\ t.pc = "done"
            /\ 0 < t.created
            /\ t.created < Len(t.rows)

\* C9, as claimed: a wait separates every two consecutive commands of a run.
C9_WaitBetweenCommands ==
    \A k \in SendIds :
        LET t == send_task[k]
        IN  \A j \in 1..(Len(t.trace) - 1) :
                ~(IsCommand(t.trace[j]) /\ IsCommand(t.trace[j + 1]))

\* C9, amended: a wait of the fixed interval follows every command that was
\* sent without a local error; a command that raised is followed by no wait,
\* the next event being the create of the next row; and there is no other
\* wait.
C9_WaitAfterSentCommand ==
    \A k \in SendIds :
        LET t == send_task[k]
        IN  \A j \in 1..Len(t.trace) :
                /\ (IsCommand(t.trace[j]) /\ t.trace[j].ok) =>
                      /\ j < Len(t.trace)
                      /\ t.trace[j + 1] = [op |-> "sleep", ms |-> 200]
                /\ (IsCommand(t.trace[j]) /\ ~t.trace[j].ok /\ j < Len(t.trace)) =>
                      t.trace[j + 1].op = "create"
                /\ t.trace[j].op = "sleep" =>
                      /\ j > 1
                      /\ IsCommand(t.trace[j - 1])
                      /\ t.trace[j - 1].ok

\* C9 witness: a run in which a rename raised after its create was sent, and
\* the next row's create followed the rename directly
C9_Witness ==
    \E k \in SendIds :
        LET t == send_task[k]
        IN  \E j \in 1..(Len(t.trace) - 1) :
                /\ t.trace[j].op = "rename" /\ ~t.trace[j].ok
                /\ t.trace[j + 1].op = "create"
                /\ j > 2
                /\ t.trace[j - 1].op = "sleep"
                /\ t.trace[j - 2].op = "create"

\* the text contains a double quote
HasDoubleQuote(s) == \E i \in 1..Len(s) : s[i] = "\""

\* the title of the plan item behind row k of the preview
TitleOfRow(k) ==
    LET id == Included[row_src[k].it].item
    IN  items_data.data[CHOOSE p \in 1..Len(items_data.data) :
                            items_data.data[p].id = id].title

\* C18: no row name and no rename payload contains a double quote: the name
\* of a row is the title of its plan item, character by character, with a
\* single quote where the title has a double quote, and a rename command
\* carries exactly the name of the row whose snap_index it addresses.
C18_NoDoubleQuoteSent ==
    /\ \A k \in 1..Len(preview_rows) :
          /\ ~HasDoubleQuote(preview_rows[k].name)
          /\ TitleOfRow(k) # <<>> =>
                /\ Len(preview_rows[k].name) = Len(TitleOfRow(k))
                /\ \A i \in 1..Len(TitleOfRow(k)) :
                      preview_rows[k].name[i]
                        = IF TitleOfRow(k)[i] = "\"" THEN "'" ELSE TitleOfRow(k)[i]
    /\ \A s \in SendIds :
          \A j \in 1..Len(send_task[s].trace) :
              LET e == send_task[s].trace[j]
              IN  e.op = "rename" =>
                    /\ ~HasDoubleQuote(e.name)
                    /\ \E r \in 1..Len(send_task[s].rows) :
                          /\ send_task[s].rows[r].snap_index = e.index
                          /\ send_task[s].rows[r].name = e.name

\* C18 witness: a rename command was sent with the name 'hi' in single
\* quotes, for a row whose plan item has the title "hi" in double quotes
C18_Witness ==
    \E s \in SendIds :
        /\ \E j \in 1..Len(send_task[s].trace) :
              /\ send_task[s].trace[j].op = "rename"
              /\ send_task[s].trace[j].ok
              /\ send_task[s].trace[j].name = <<"'", "h", "i", "'">>
        /\ \E k \in 1..Len(preview_rows) :
              /\ TitleOfRow(k) = <<"\"", "h", "i", "\"">>
              /\ preview_rows[k].name = <<"'", "h", "i", "'">>

\* ------------------------------------------------------------------ properties of the controls

\* the send thread has disabled the button and has not yet reported
Running(k) == send_task[k].pc \in {"loop", "create", "rename", "finish"}

\* C4, as claimed: from the moment a send thread has started until it
\* finishes the Send button stays disabled, whatever the foreground does, so
\* that no second send thread runs beside it.
C4_SendDisabledWhileRunning ==
    /\ \A k \in SendIds : Running(k) => btn_send = "disabled"
    /\ Cardinality({k \in SendIds : Running(k)}) <= 1

\* C5, as claimed: every change of an upstream selection (service type, plan,
\* selected plan times, offset toggle) leaves the preview rows empty.
C5_SelectionChangeClearsPreview ==
    [][(\/ selected_service_type' # selected_service_type
        \/ selected_plan' # selected_plan
        \/ lst_sel' # lst_sel
        \/ chk_has_existing' # chk_has_existing)
       => preview_rows' = <<>>]_vars

\* the threads of one kind that have disabled their button and not ended
PastDisable(tasks) == {k \in TaskIds : tasks[k].pc = "fetch"}

\* C14, as claimed: of each kind of fetch or load thread at most one is
\* running at a time, and while one runs the button that starts it is
\* disabled, whatever the other handlers and the threads of the other kinds
\* do.
C14_OneTaskPerAction ==
    /\ Cardinality(PastDisable(types_task)) <= 1
    /\ PastDisable(types_task) # {} => btn_fetch_types = "disabled"
    /\ Cardinality(PastDisable(plans_task)) <= 1
    /\ PastDisable(plans_task) # {} => btn_fetch_plans = "disabled"
    /\ Cardinality(PastDisable(load_task)) <= 1
    /\ PastDisable(load_task) # {} => btn_load_plan_times = "disabled"

\* C15, as claimed: a build requested when no plan data has been loaded
\* fails with the error "Load plan times first.", a build with no list entry
\* selected fails with "Select at least one plan time.", and neither changes
\* the preview rows.
C15_BuildPreconditions ==
    [][build_err' # build_err =>
         /\ ~items_data.loaded => build_err' = "Load plan times first."
         /\ (items_data.loaded /\ lst_sel = {}) =>
               build_err' = "Select at least one plan time."
         /\ (~items_data.loaded \/ lst_sel = {}) => preview_rows' = preview_rows]_vars

\* the thread has ended: it returned, or an exception ended it
Ended(t) == t.pc \in {"idle", "raised"}

\* C16, as claimed: every fetch or load thread that has started ends by
\* returning, for every answer of the catalog (an error, no plans, plan
\* times with and without starts_at, with and without a zone), and the step
\* that ends it leaves its button enabled; no thread is ended by an
\* exception with its button disabled.
C16_TasksFinish ==
    /\ [](\A k \in TaskIds : load_task[k].pc # "raised")
    /\ \A k \in TaskIds :
          /\ (types_task[k].pc = "start") ~> (types_task[k].pc = "idle")
          /\ (plans_task[k].pc = "start") ~> (plans_task[k].pc = "idle")
          /\ (load_task[k].pc = "start") ~> (load_task[k].pc = "idle")
    /\ [][\A k \in TaskIds :
            /\ (~Ended(types_task[k]) /\ Ended(types_task'[k])) =>
                  btn_fetch_types' = "normal"
            /\ (~Ended(plans_task[k]) /\ Ended(plans_task'[k])) =>
                  btn_fetch_plans' = "normal"
            /\ (~Ended(load_task[k]) /\ Ended(load_task'[k])) =>
                  btn_load_plan_times' = "normal"]_vars

\* the one-to-one assignments of list positions to plan-time records
Orders(n) == {f \in [1..n -> 1..n] : \A i, j \in 1..n : f[i] = f[j] => i = j}

\* C17, as claimed: after a load the list of plan times has one entry per
\* plan-time record of the payload, equal labels kept apart, in ascending
\* order of the records' instants, a record without instant standing after
\* every record that has one.
C17_ListAfterLoad ==
    items_data.loaded =>
        /\ Len(lst_times) = Len(plan_times)
        /\ \E f \in Orders(Len(plan_times)) :
              /\ \A i \in 1..Len(plan_times) :
                    lst_times[i] = LabelOrDefault(plan_times[f[i]].label)
              /\ \A i, j \in 1..Len(plan_times) :
                    (i < j /\ plan_times[f[j]].instant.kind # "none") =>
                        /\ plan_times[f[i]].instant.kind # "none"
                        /\ plan_times[f[i]].instant.t <= plan_times[f[j]].instant.t

\* the endpoint entries name a host and hold an integer port
EndpointFilled ==
    /\ var_ip = <<"h">>
    /\ var_port \in {<<"8", "0", "0", "0">>, <<" ", "8", " ">>}

\* C20: a send thread is started only when the host and the port are filled
\* in and the port is an integer, so that with an empty host, an empty port
\* or a port that is no integer no thread starts and no command is issued;
\* a thread whose transport client cannot be made has issued no command, and
\* the step in which it fails leaves the Send button enabled.
C20_EndpointChecked ==
    /\ [](\A k \in SendIds :
            send_task[k].pc \in {"idle", "start", "failed"} =>
              send_task[k].trace = <<>>)
    /\ [][\A k \in SendIds :
            /\ (send_task[k].pc = "idle" /\ send_task'[k].pc # "idle") => EndpointFilled
            /\ (send_task[k].pc # "failed" /\ send_task'[k].pc = "failed") =>
                  btn_send' = "normal"]_vars

\* C20 witness: a thread has failed to make its client, the Send button is
\* enabled, rows are in the preview, the port entry now holds no integer
\* and no other thread has started
C20_Witness ==
    /\ send_task[1].pc = "failed"
    /\ send_task[1].trace = <<>>
    /\ send_task[2].pc = "idle"
    /\ btn_send = "normal"
    /\ preview_rows # <<>>
    /\ var_port = <<"a", "b">>

\* a step of on_preview in the specifications of the preview and the send
\* threads: the only handler that leaves the selection, the toggle and the
\* threads as they are
PreviewStep ==
    /\ lst_sel' = lst_sel
    /\ chk_has_existing' = chk_has_existing
    /\ send_task' = send_task

\* C21: a Preview with a list entry selected reports no error, also when it
\* gives no row; a Preview without error that gives no row leaves the
\* preview empty and the Send button disabled, one that gives a row or more
\* leaves the Send button enabled.
C21_EmptyPreviewDisablesSend ==
    [][PreviewStep =>
         /\ lst_sel # {} => build_err' = "none"
         /\ (build_err' = "none" /\ preview_rows' = <<>>) => btn_send' = "disabled"
         /\ (build_err' = "none" /\ preview_rows' # <<>>) => btn_send' = "normal"]_vars

\* C21 witness: after a finished send a Preview of the plan time without
\* cue has left no row, no error and the Send button disabled
C21_Witness ==
    /\ send_task[1].pc = "done"
    /\ send_task[2].pc = "idle"
    /\ lst_sel = {2}
    /\ build_err = "none"
    /\ preview_rows = <<>>
    /\ btn_send = "disabled"

\* C22: a Preview that fails with a selection error leaves the preview rows
\* of the build before it and the state of the Send button as they were.
C22_FailedPreviewKeepsRows ==
    [][(PreviewStep /\ build_err' # "none") =>
         /\ preview_rows' = preview_rows
         /\ btn_send' = btn_send]_vars

\* C22 witness: a Preview without selection has failed and the rows built
\* before it are in the preview, the Send button enabled
C22_Witness ==
    /\ lst_sel = {}
    /\ build_err = "Select at least one plan time."
    /\ preview_rows # <<>>
    /\ btn_send = "normal"
    /\ \A k \in SendIds : send_task[k].pc = "idle"

\* C23, as claimed: in one build every loaded item time gives at most one
\* row, for every selection of the list, two selected entries with one
\* label included.
C23_OneRowPerItemTime ==
    \A i \in 1..Len(Included) :
        Cardinality({k \in 1..Len(row_src) : row_src[k].it = i}) <= 1

\* C24, as claimed: whenever the preview has rows, the loaded items and
\* plan times they were built from are those of the plan that is selected.
C24_RowsOfSelectedPlan ==
    preview_rows # <<>> => items_data.plan = selected_plan

\* C25: a send task transmits the rows of the list that self.preview_rows
\* was when its loop began, in order: the list it iterates is the preview
\* list of that moment, no later step changes it, and every command the task
\* issues continues create(row 1), rename(row 1), create(row 2), ... of that
\* list, whatever Preview or a clearing handler has made of the preview list
\* in the meantime.
C25_SendsRowsOfLoopStart ==
    [][\A k \in SendIds :
          /\ (send_task[k].pc = "loop" /\ send_task'[k].pc # "loop") =>
                send_task'[k].rows = preview_rows
          /\ send_task[k].pc \in {"create", "rename", "finish"} =>
                /\ send_task'[k].rows = send_task[k].rows
                /\ LET cmds == Commands(send_task'[k].trace)
                   IN  /\ Len(cmds) <= 2 * Len(send_task[k].rows)
                       /\ cmds = SubSeq(ExpectedCommands(send_task[k].rows), 1, Len(cmds))]_vars

\* C25 witness: a task has sent its first row and is at the rename of its
\* second while the preview list has been rebuilt into other rows
C25_Witness ==
    \E k \in SendIds :
        /\ send_task[k].pc = "rename"
        /\ send_task[k].i = 2
        /\ Len(Commands(send_task[k].trace)) = 3
        /\ preview_rows # <<>>
        /\ preview_rows # send_task[k].rows

\* C26, as claimed: whenever the Send button is enabled the preview has a
\* row.
C26_SendEnabledHasRows ==
    btn_send = "normal" => preview_rows # <<>>

====
